---- MODULE Spec2Model ----
(***************************************************************************)
(* A model of joplin2paperless-ngx: the exporter (joplin_to_paperless.py:  *)
(* find_resource_paths, create_pdf_from_images, process_joplin_export) and *)
(* the uploader (upload_to_paperless.py: get_file_dates, upload_pdf, main).*)
(*                                                                         *)
(* A path is a record [stem, suffix], as pathlib splits a file name; the   *)
(* name is stem followed by suffix.  Every resource lives in the one       *)
(* _resources directory, so a path is identified by its name.              *)
(***************************************************************************)
EXTENDS Integers, Sequences, FiniteSets, TLC

VARIABLES
    \* find_resource_paths, called on its own
    fcontent,   \* the note text: the references it holds, in document order
    fpc,        \* "call" before the call, "returned" after it
    fresult,    \* the returned list of <<path, extension>>
    finferred,  \* per reference in pass order: the reference and the extension inferred for it
    \* process_joplin_export
    notes,      \* the note files under Dokumente, in glob order
    pc,         \* "running", "done" (loop finished) or "crashed" (an exception left the loop)
    idx,        \* index of the next note to process
    run,        \* which run over the same export this is
    outdir,     \* the output directory: file name -> [content, mtime, by]
    out1,       \* the output directory as the first run left it
    logs,       \* warnings logged: <<run, note index, message>>
    last,       \* what the last processed note did
    \* the uploader's main
    ufiles,     \* the *.pdf entries globbed from the folder
    upc,        \* "running", "done" or "crashed"
    uidx,       \* index of the next file
    ustatus,    \* per file: "pending", "uploaded" or "failed"
    uattempts,  \* per file: number of POST requests sent
    ulast,      \* the last upload_pdf call: response, return value, logging
    ulogs       \* per file: the levels logged for it

fvars == <<fcontent, fpc, fresult, finferred>>
evars == <<notes, pc, idx, run, outdir, out1, logs, last>>
uvars == <<ufiles, upc, uidx, ustatus, uattempts, ulast, ulogs>>
vars == <<fcontent, fpc, fresult, finferred,
          notes, pc, idx, run, outdir, out1, logs, last,
          ufiles, upc, uidx, ustatus, uattempts, ulast, ulogs>>

\* ------------------------------------------------------------------ bounds
MaxRefs == 2
MaxNotes == 2
MaxRuns == 2
MaxFiles == 2

\* ------------------------------------------------------------- primitives
Range(s) == {s[i] : i \in 1..Len(s)}

Perms(S) == {s \in [1..Cardinality(S) -> S] : \A i, j \in 1..Cardinality(S) : s[i] = s[j] => i = j}

P(stem, suffix) == [stem |-> stem, suffix |-> suffix]

NoAttr == "<none>"

\* a text (alt attribute, link label): absent, or a file-name-like text
NoText == [present |-> FALSE, stem |-> "", suffix |-> ""]
Text(stem, suffix) == [present |-> TRUE, stem |-> stem, suffix |-> suffix]

\* Python truthiness of a text
NonEmpty(t) == t.present /\ (t.stem # "" \/ t.suffix # "")

\* str.lower() on the strings the model uses
Lower(s) ==
    CASE s = "Application/PDF" -> "application/pdf"
      [] s = "Image/PNG" -> "image/png"
      [] s = ".PDF" -> ".pdf"
      [] s = ".PNG" -> ".png"
      [] OTHER -> s

MimeToExt ==
    [m \in {"image/jpeg", "image/jpg", "image/png", "image/gif", "image/bmp",
            "image/tiff", "image/webp", "image/heic", "application/pdf"} |->
        CASE m \in {"image/jpeg", "image/jpg"} -> ".jpg"
          [] m = "image/png" -> ".png"
          [] m = "image/gif" -> ".gif"
          [] m = "image/bmp" -> ".bmp"
          [] m = "image/tiff" -> ".tif"
          [] m = "image/webp" -> ".webp"
          [] m = "image/heic" -> ".heic"
          [] m = "application/pdf" -> ".pdf"]

\* the files of the _resources directory; openable is whether Image.open
\* succeeds on the file
ResourceDir ==
    [p \in {P("r1", ".pdf"), P("r1", ".bin"), P("r2", ".pdf"),
            P("i1", ".png"), P("i2", ".png")} |->
        CASE p = P("i1", ".png") -> [openable |-> TRUE]
          [] OTHER -> [openable |-> FALSE]]

Exists(p) == p \in DOMAIN ResourceDir

\* ------------------------------------------------- find_resource_paths
\* a reference: kind "img" (<img src type alt>), "md" ([alt](target)) or
\* "a" (<a href type>alt</a>)
Ref(kind, target, type, alt) == [kind |-> kind, target |-> target, type |-> type, alt |-> alt]

\* a variant that lets the target's own suffix win over the alt text
ImgSuffixTargetFirst(tag) ==
    IF tag.type # NoAttr /\ Lower(tag.type) \in DOMAIN MimeToExt
    THEN MimeToExt[Lower(tag.type)]
    ELSE IF tag.target.suffix # ""
         THEN tag.target.suffix
         ELSE IF tag.alt.present THEN tag.alt.suffix ELSE ""

ImgSuffix(tag) ==
    IF tag.type # NoAttr
    THEN IF Lower(tag.type) \in DOMAIN MimeToExt
         THEN MimeToExt[Lower(tag.type)]
         ELSE tag.target.suffix
    ELSE IF tag.alt.present /\ tag.alt.suffix # ""
         THEN tag.alt.suffix
         ELSE tag.target.suffix

ImgStep(rp, tag) ==
    IF Exists(tag.target) THEN Append(rp, <<tag.target, ImgSuffix(tag)>>) ELSE rp

MdUsesAlt(link) == link.target.suffix = "" /\ NonEmpty(link.alt) /\ link.alt.suffix # ""

MdSuffix(link) == IF MdUsesAlt(link) THEN link.alt.suffix ELSE link.target.suffix

\* resource_name += alt_suffix
MdPath(link) == IF MdUsesAlt(link) THEN P(link.target.stem, link.alt.suffix) ELSE link.target

MdStep(rp, link) ==
    IF Exists(MdPath(link)) /\ ~(\E i \in 1..Len(rp) : rp[i][1] = MdPath(link))
    THEN Append(rp, <<MdPath(link), MdSuffix(link)>>) ELSE rp

ASuffix(tag) ==
    IF tag.type # NoAttr
    THEN IF Lower(tag.type) \in DOMAIN MimeToExt
         THEN MimeToExt[Lower(tag.type)]
         ELSE tag.target.suffix
    ELSE IF NonEmpty(tag.alt) /\ tag.target.suffix \notin {".jpg", ".jpeg", ".png", ".pdf", ".tif"}
              /\ tag.alt.suffix # ""
         THEN tag.alt.suffix
         ELSE tag.target.suffix

AStep(rp, tag) ==
    IF Exists(tag.target) /\ ~(\E i \in 1..Len(rp) : rp[i][1] = tag.target)
    THEN Append(rp, <<tag.target, ASuffix(tag)>>) ELSE rp

\* the extension a pass infers for a reference, and the path it resolves
RefSuffix(r) ==
    CASE r.kind = "img" -> ImgSuffix(r)
      [] r.kind = "md" -> MdSuffix(r)
      [] r.kind = "a" -> ASuffix(r)

RefPath(r) == IF r.kind = "md" THEN MdPath(r) ELSE r.target

IsImg(r) == r.kind = "img"
IsMd(r) == r.kind = "md"
IsA(r) == r.kind = "a"

\* the order the three passes visit the references: every <img>, then every
\* markdown link, then every <a>, each in document order
PassOrder(content) ==
    SelectSeq(content, IsImg) \o SelectSeq(content, IsMd) \o SelectSeq(content, IsA)

RECURSIVE Passes(_, _)
Passes(rp, refs) ==
    IF refs = <<>> THEN rp
    ELSE LET r == Head(refs)
             next == CASE r.kind = "img" -> ImgStep(rp, r)
                       [] r.kind = "md" -> MdStep(rp, r)
                       [] r.kind = "a" -> AStep(rp, r)
         IN Passes(next, Tail(refs))

\* resource_paths just before the return
ResourcePaths(content) == Passes(<<>>, PassOrder(content))

\* list(set(resource_paths)): the distinct pairs, in whatever order the set
\* iterates them
FindResourcePaths(content) == Perms(Range(ResourcePaths(content)))

Inferred(content) ==
    [i \in 1..Len(PassOrder(content)) |->
        [ref |-> PassOrder(content)[i], ext |-> RefSuffix(PassOrder(content)[i])]]

\* the references a bounded note text is built from
Targets == {P("r1", ""), P("r1", ".pdf"), P("r1", ".bin")}
Types == {NoAttr, "Application/PDF", "text/plain"}
Alts == {NoText, Text("scan", ""), Text("scan", ".PDF")}
Refs ==
    {Ref(k, t, ty, a) : k \in {"img", "a"}, t \in Targets, ty \in Types, a \in Alts}
    \cup {Ref("md", t, NoAttr, a) : t \in Targets, a \in Alts}

RECURSIVE SeqsUpTo(_, _)
SeqsUpTo(S, n) ==
    IF n = 0 THEN {<<>>}
    ELSE LET shorter == SeqsUpTo(S, n - 1)
         IN shorter \cup {Append(s, x) : s \in {t \in shorter : Len(t) = n - 1}, x \in S}

\* ------------------------------------------------ front matter parsing
\* front matter: shape "none" (fewer than three '---' parts, or not a
\* mapping), "malformed" (yaml.safe_load raises YAMLError) or "dict" with
\* the raw title and created values ("" when the key is absent or falsy)
FM(shape, title, created) == [shape |-> shape, title |-> title, created |-> created]

\* str(created).replace(" ", "T"), "Z" -> "+00:00", datetime.fromisoformat,
\* .timestamp(): the seconds since the epoch, or a ValueError
ParseCreated(s) ==
    CASE s = "1970-01-01T00:00:00Z" -> [ok |-> TRUE, t |-> 0]
      [] s = "2023-05-01 10:00:00" -> [ok |-> TRUE, t |-> 1682935200]
      [] s = "2023-05-01T10:00:00Z" -> [ok |-> TRUE, t |-> 1682935200]
      [] OTHER -> [ok |-> FALSE, t |-> 0]

\* created_time after the front matter block: None, or the timestamp
CreatedTime(fm) ==
    IF fm.shape = "dict" /\ fm.created # "" /\ ParseCreated(fm.created).ok
    THEN [known |-> TRUE, t |-> ParseCreated(fm.created).t]
    ELSE [known |-> FALSE, t |-> 0]

Stem(i) == "n" \o ToString(i)

NoteTitle(i, fm) == IF fm.shape = "dict" /\ fm.title # "" THEN fm.title ELSE Stem(i)

FrontMatterWarnings(fm) ==
    (IF fm.shape = "malformed" THEN {"front matter"} ELSE {})
    \cup (IF fm.shape = "dict" /\ fm.created # "" /\ ~ParseCreated(fm.created).ok
          THEN {"created"} ELSE {})

\* `if created_time:` treats the timestamp by its truth value
UtimeWanted(ct) == ct.known /\ ct.t # 0

\* --------------------------------------------------- the export driver
ImageExtensions == {".jpg", ".jpeg", ".png", ".bmp", ".gif", ".tif", ".tiff", ".webp", ".heic"}

IsPdfPair(pr) == Lower(pr[2]) = ".pdf"
IsImagePair(pr) == Lower(pr[2]) \in ImageExtensions

FirstOf(prs) == [i \in 1..Len(prs) |-> prs[i][1]]

PdfFiles(rd) == FirstOf(SelectSeq(rd, IsPdfPair))
ImageFiles(rd) == FirstOf(SelectSeq(rd, IsImagePair))

\* a variant that tests image_files before pdf_files
BranchImagesFirst(pdfs, images) ==
    IF images # <<>> THEN "image" ELSE IF pdfs # <<>> THEN "pdf" ELSE "skip"

\* a variant whose image branch is a plain else
BranchNoSkip(pdfs, images) ==
    IF pdfs # <<>> THEN "pdf" ELSE "image"

\* if pdf_files: ... elif image_files: ... else: ...
Branch(pdfs, images) ==
    IF pdfs # <<>> THEN "pdf" ELSE IF images # <<>> THEN "image" ELSE "skip"

OutName(title) == title \o ".pdf"
OutNameIdx(title, i) == title \o "_" \o ToString(i) \o ".pdf"

\* the names the PDF branch writes: title.pdf, or title_0.pdf, title_1.pdf, ...
PdfNames(title, pdfs) ==
    IF Len(pdfs) = 1 THEN {OutName(title)}
    ELSE {OutNameIdx(title, k - 1) : k \in 1..Len(pdfs)}

PdfSource(title, pdfs, name) ==
    IF Len(pdfs) = 1 THEN pdfs[1]
    ELSE pdfs[CHOOSE k \in 1..Len(pdfs) : OutNameIdx(title, k - 1) = name]

Copy(p) == [kind |-> "copy", src |-> <<p>>]
Synth(ps) == [kind |-> "synth", src |-> ps]

Now == [set |-> FALSE, t |-> 0]
At(t) == [set |-> TRUE, t |-> t]

Openable(p) == ResourceDir[p].openable

\* create_pdf_from_images: the images that open, in order; no file when none does
Opened(images) == SelectSeq(images, Openable)

\* the files put into the directory `out` by one write of `names`
Put(out, names, content, ct, i) ==
    [f \in DOMAIN out \cup names |->
        IF f \in names
        THEN [content |-> content[f],
              mtime |-> IF UtimeWanted(ct) THEN At(ct.t) ELSE Now,
              by |-> i]
        ELSE out[f]]

\* one pass of the loop body over note i, with its references enumerated in
\* the order rd: the directory afterwards, the names written, the warnings
\* logged, and whether an exception left the loop
NoteEffect(out, i, fm, rd) ==
    LET title == NoteTitle(i, fm)
        ct == CreatedTime(fm)
        pdfs == PdfFiles(rd)
        images == ImageFiles(rd)
        branch == Branch(pdfs, images)
        CopyOf == [f \in PdfNames(title, pdfs) |-> Copy(PdfSource(title, pdfs, f))]
        SynthOf == [f \in {OutName(title)} |-> Synth(Opened(images))]
    IN CASE branch = "pdf" ->
              [out |-> Put(out, PdfNames(title, pdfs), CopyOf, ct, i),
               written |-> PdfNames(title, pdfs), warns |-> {}, crashed |-> FALSE,
               branch |-> branch]
         [] branch = "image" /\ Opened(images) # <<>> ->
              [out |-> Put(out, {OutName(title)}, SynthOf, ct, i),
               written |-> {OutName(title)}, warns |-> {}, crashed |-> FALSE,
               branch |-> branch]
         [] branch = "image" /\ Opened(images) = <<>> ->
              \* nothing is written; os.utime then runs on whatever is at the path
              [out |-> IF UtimeWanted(ct) /\ OutName(title) \in DOMAIN out
                       THEN [out EXCEPT ![OutName(title)].mtime = At(ct.t)]
                       ELSE out,
               written |-> {},
               warns |-> IF images # <<>> THEN {"no valid images"} ELSE {},
               crashed |-> UtimeWanted(ct) /\ OutName(title) \notin DOMAIN out,
               branch |-> branch]
         [] OTHER ->
              [out |-> out, written |-> {}, warns |-> {"skipping"}, crashed |-> FALSE,
               branch |-> branch]

\* the notes an export is drawn from
RefPdf1 == Ref("md", P("r1", ".pdf"), NoAttr, Text("scan", ""))
RefPdf2 == Ref("a", P("r2", ".pdf"), "Application/PDF", NoText)
RefImg1 == Ref("img", P("i1", ".png"), NoAttr, NoText)
RefImg2 == Ref("img", P("i2", ".png"), NoAttr, NoText)
RefGone == Ref("md", P("gone", ".pdf"), NoAttr, NoText)
RefBin == Ref("md", P("r1", ".bin"), NoAttr, NoText)

Contents ==
    { <<RefPdf1>>,
      <<RefPdf1, RefPdf2>>,
      <<RefImg1, RefImg2>>,
      <<RefImg2>>,
      <<RefImg1, RefPdf2>>,
      <<RefGone, RefBin>> }

FrontMatters ==
    { FM("none", "", ""),
      FM("malformed", "", ""),
      FM("dict", "a", "garbage"),
      FM("dict", "a", "2023-05-01 10:00:00"),
      FM("dict", "", "1970-01-01T00:00:00Z") }

Notes == {[fm |-> fm, content |-> c] : fm \in FrontMatters, c \in Contents}

Exports == SeqsUpTo(Notes, MaxNotes) \ {<<>>}

\* ----------------------------------------------------------- idle values
FIdle ==
    /\ fcontent = <<>>
    /\ fpc = "idle"
    /\ fresult = <<>>
    /\ finferred = <<>>

NoLast == [idx |-> 0, branch |-> "none", order |-> <<>>, written |-> {}]

EIdle ==
    /\ notes = <<>>
    /\ pc = "idle"
    /\ idx = 0
    /\ run = 0
    /\ outdir = <<>>
    /\ out1 = <<>>
    /\ logs = {}
    /\ last = NoLast

NoCall ==
    [file |-> 0, outcome |-> "none", status |-> 0, body |-> [json |-> FALSE, value |-> 0],
     posts |-> 0, ret |-> [some |-> FALSE, id |-> 0], level |-> "none", raised |-> FALSE]

UIdle ==
    /\ ufiles = <<>>
    /\ upc = "idle"
    /\ uidx = 0
    /\ ustatus = <<>>
    /\ uattempts = <<>>
    /\ ulast = NoCall
    /\ ulogs = <<>>

\* --------------------------------------- find_resource_paths on its own
FindInit ==
    /\ fcontent \in SeqsUpTo(Refs, MaxRefs)
    /\ fpc = "call"
    /\ fresult = <<>>
    /\ finferred = <<>>
    /\ EIdle
    /\ UIdle

FindCall ==
    /\ fpc = "call"
    /\ fresult' \in FindResourcePaths(fcontent)
    /\ finferred' = Inferred(fcontent)
    /\ fpc' = "returned"
    /\ UNCHANGED <<fcontent, evars, uvars>>

FindNext == FindCall

SpecFind == FindInit /\ [][FindNext]_vars

\* -------------------------------------------------- process_joplin_export
Init ==
    /\ notes \in Exports
    /\ pc = "running"
    /\ idx = 1
    /\ run = 1
    /\ outdir = <<>>
    /\ out1 = <<>>
    /\ logs = {}
    /\ last = NoLast
    /\ FIdle
    /\ UIdle

\* one iteration of the loop over the note files (lines 175-246)
ProcessNote ==
    /\ pc = "running"
    /\ idx \in 1..Len(notes)
    /\ \E rd \in FindResourcePaths(notes[idx].content) :
         LET fm == notes[idx].fm
             eff == NoteEffect(outdir, idx, fm, rd)
             ended == eff.crashed \/ idx = Len(notes)
         IN /\ outdir' = eff.out
            /\ logs' = logs \cup {<<run, idx, w>> : w \in FrontMatterWarnings(fm) \cup eff.warns}
            /\ last' = [idx |-> idx, branch |-> eff.branch, order |-> rd, written |-> eff.written]
            /\ pc' = IF eff.crashed THEN "crashed"
                     ELSE IF idx = Len(notes) THEN "done" ELSE "running"
            /\ idx' = IF eff.crashed THEN idx ELSE idx + 1
            /\ out1' = IF run = 1 /\ ended THEN eff.out ELSE out1
    /\ UNCHANGED <<notes, run, fvars, uvars>>

\* the user runs the exporter again on the same export and output directory
Rerun ==
    /\ pc \in {"done", "crashed"}
    /\ run < MaxRuns
    /\ run' = run + 1
    /\ pc' = "running"
    /\ idx' = 1
    /\ last' = NoLast
    /\ UNCHANGED <<notes, outdir, out1, logs, fvars, uvars>>

Next == ProcessNote \/ Rerun

Spec == Init /\ [][Next]_vars

\* ------------------------------------------------------------ the uploader
\* a globbed entry: whether stat() on it succeeds (a dangling link or a file
\* removed since the glob fails), and whether open(..., "rb") succeeds
UFile(statOk, openOk) == [statOk |-> statOk, openOk |-> openOk]

UFiles == {UFile(TRUE, TRUE), UFile(TRUE, FALSE), UFile(FALSE, TRUE)}

\* what requests.post does: raise a RequestException, or answer
Transport == [kind |-> "transport", status |-> 0, body |-> [json |-> FALSE, value |-> 0]]
Response(status, body) == [kind |-> "response", status |-> status, body |-> body]

Bodies == {[json |-> TRUE, value |-> 7], [json |-> TRUE, value |-> 8], [json |-> FALSE, value |-> 0]}

Outcomes == {Transport} \cup {Response(st, b) : st \in {200, 201, 202, 500}, b \in Bodies}

None == [some |-> FALSE, id |-> 0]
Some(v) == [some |-> TRUE, id |-> v]

Call(outcome, posts, ret, level, raised) ==
    [file |-> 0, outcome |-> outcome.kind, status |-> outcome.status, body |-> outcome.body,
     posts |-> posts, ret |-> ret, level |-> level, raised |-> raised]

\* a variant that accepts status 201 alone
UploadPdfOnly201(f, outcome) ==
    IF ~f.openOk
    THEN Call([Transport EXCEPT !.kind = "open"], 0, None, "error", FALSE)
    ELSE IF outcome.kind = "transport"
    THEN Call(outcome, 1, None, "error", FALSE)
    ELSE IF outcome.status = 201
    THEN IF outcome.body.json
         THEN Call(outcome, 1, Some(outcome.body.value), "info", FALSE)
         ELSE Call(outcome, 1, None, "error", FALSE)
    ELSE Call(outcome, 1, None, "error", FALSE)

\* upload_pdf (lines 22-58): what it sends, returns and logs
UploadPdf(f, outcome) ==
    IF ~f.openOk
    THEN \* open() raises; `except Exception` logs it
         Call([Transport EXCEPT !.kind = "open"], 0, None, "error", FALSE)
    ELSE IF outcome.kind = "transport"
    THEN Call(outcome, 1, None, "error", FALSE)
    ELSE IF outcome.status \in {201, 200}
    THEN IF outcome.body.json
         THEN Call(outcome, 1, Some(outcome.body.value), "info", FALSE)
         ELSE \* response.json() raises; `except` logs it
              Call(outcome, 1, None, "error", FALSE)
    ELSE Call(outcome, 1, None, "error", FALSE)

UInit ==
    /\ ufiles \in SeqsUpTo(UFiles, MaxFiles) \ {<<>>}
    /\ upc = "running"
    /\ uidx = 1
    /\ ustatus = [i \in 1..Len(ufiles) |-> "pending"]
    /\ uattempts = [i \in 1..Len(ufiles) |-> 0]
    /\ ulast = NoCall
    /\ ulogs = [i \in 1..Len(ufiles) |-> <<>>]
    /\ FIdle
    /\ EIdle

\* one iteration of main's loop (lines 87-95) where get_file_dates returns
UploadFile ==
    /\ upc = "running"
    /\ uidx \in 1..Len(ufiles)
    /\ ufiles[uidx].statOk
    /\ \E outcome \in Outcomes :
         LET c == UploadPdf(ufiles[uidx], outcome)
         IN /\ ulast' = [c EXCEPT !.file = uidx]
            /\ uattempts' = [uattempts EXCEPT ![uidx] = @ + c.posts]
            /\ ustatus' = [ustatus EXCEPT ![uidx] = IF c.level = "info" THEN "uploaded" ELSE "failed"]
            /\ ulogs' = [ulogs EXCEPT ![uidx] = Append(@, c.level)]
            /\ upc' = IF c.raised THEN "crashed"
                      ELSE IF uidx = Len(ufiles) THEN "done" ELSE "running"
            /\ uidx' = uidx + 1
    /\ UNCHANGED <<ufiles, fvars, evars>>

\* one iteration of main's loop where file_path.stat() raises in
\* get_file_dates (lines 13, 88): nothing catches it
StatFails ==
    /\ upc = "running"
    /\ uidx \in 1..Len(ufiles)
    /\ ~ufiles[uidx].statOk
    /\ upc' = "crashed"
    /\ UNCHANGED <<ufiles, uidx, ustatus, uattempts, ulast, ulogs, fvars, evars>>

UNext == UploadFile \/ StatFails

SpecUpload == UInit /\ [][UNext]_vars

\* ================================================================= claims
\* the pairs (path, extension) of a note's references that count as PDFs
PdfPairs(content) == {pr \in Range(ResourcePaths(content)) : IsPdfPair(pr)}
ImagePairs(content) == {pr \in Range(ResourcePaths(content)) : IsImagePair(pr)}

Contents1(o) == [f \in DOMAIN o |-> o[f].content]

\* C1 (as claimed): a failure while handling one note never aborts the run:
\* whenever the run has ended, every note of the export has been processed.
C1_PerItemIsolation ==
    pc \in {"done", "crashed"} => idx > Len(notes)

\* the precedence as the data model words it: MIME type, target suffix, alt suffix
C2_ClaimedExt(r) ==
    IF r.type # NoAttr /\ Lower(r.type) \in DOMAIN MimeToExt
    THEN MimeToExt[Lower(r.type)]
    ELSE IF r.target.suffix # "" THEN r.target.suffix
    ELSE IF r.alt.present THEN r.alt.suffix ELSE ""

\* C2 (as claimed): the extension inferred for a reference is the one mapped
\* from a recognised MIME type when present, otherwise the suffix of the
\* link target when it has one, and only otherwise the suffix of the alt text.
C2_PrecedenceAsClaimed ==
    fpc = "returned" =>
        \A i \in 1..Len(finferred) : finferred[i].ext = C2_ClaimedExt(finferred[i].ref)

\* the precedence pass by pass
C2_AmendedExt(r) ==
    LET altSuffix == IF r.alt.present THEN r.alt.suffix ELSE ""
        kept == {".jpg", ".jpeg", ".png", ".pdf", ".tif"}
    IN IF r.type # NoAttr
       THEN IF Lower(r.type) \in DOMAIN MimeToExt
            THEN MimeToExt[Lower(r.type)] ELSE r.target.suffix
       ELSE CASE r.kind = "img" ->
                   IF altSuffix # "" THEN altSuffix ELSE r.target.suffix
              [] r.kind = "md" ->
                   IF r.target.suffix # "" THEN r.target.suffix ELSE altSuffix
              [] r.kind = "a" ->
                   IF altSuffix # "" /\ r.target.suffix \notin kept
                   THEN altSuffix ELSE r.target.suffix

\* C2 (amended): a recognised MIME type always wins and an unrecognised type
\* attribute leaves the target's suffix in place; with no type attribute the
\* img pass prefers a non-empty alt suffix over the target's suffix, the
\* anchor pass does so unless the target's suffix is one of .jpg, .jpeg,
\* .png, .pdf, .tif, and the markdown pass uses the alt suffix only when the
\* target has none.
C2_PrecedenceAmended ==
    fpc = "returned" =>
        \A i \in 1..Len(finferred) : finferred[i].ext = C2_AmendedExt(finferred[i].ref)

\* an <img> with no type attribute whose alt suffix overrides the target's,
\* beside a reference whose recognised MIME type decided the extension
C2_Witness ==
    /\ fpc = "returned"
    /\ \E i \in 1..Len(finferred) :
         /\ finferred[i].ref.kind = "img"
         /\ finferred[i].ref.type = NoAttr
         /\ finferred[i].ref.target.suffix = ".bin"
         /\ finferred[i].ext = ".PDF"
    /\ \E i \in 1..Len(finferred) :
         /\ finferred[i].ref.type = "Application/PDF"
         /\ finferred[i].ref.target.suffix = ".bin"
         /\ finferred[i].ext = ".pdf"

\* C3 (as claimed): once the exporter has run over the notes there is exactly
\* one output file per (note, embedded PDF) pair, none overwritten by another
\* pair's: every note still owns as many copied files as it embeds PDFs.
C3_DistinctOutputs ==
    (pc = "done" /\ run = 1) =>
        \A i \in 1..Len(notes) :
            Cardinality({f \in DOMAIN outdir :
                            outdir[f].by = i /\ outdir[f].content.kind = "copy"})
                = (IF PdfPairs(notes[i].content) # {}
                   THEN Cardinality(PdfPairs(notes[i].content)) ELSE 0)

\* C4: when a note has at least one PDF reference, each is copied verbatim
\* (one gives title.pdf, several give title_i.pdf by position) and nothing is
\* synthesised from images; a PDF is synthesised from the image references
\* only when the note has no PDF reference.
C4_PdfOverImage ==
    last.idx # 0 =>
        LET title == NoteTitle(last.idx, notes[last.idx].fm)
            pdfs == [k \in 1..Len(SelectSeq(last.order, IsPdfPair)) |->
                        SelectSeq(last.order, IsPdfPair)[k][1]]
            images == SelectSeq(last.order, IsImagePair)
            synthesised == {f \in last.written : outdir[f].content.kind = "synth"}
        IN /\ Len(pdfs) = 1 =>
                /\ last.written = {title \o ".pdf"}
                /\ outdir[title \o ".pdf"].content = [kind |-> "copy", src |-> <<pdfs[1]>>]
           /\ Len(pdfs) > 1 =>
                /\ last.written = {title \o "_" \o ToString(k - 1) \o ".pdf" : k \in 1..Len(pdfs)}
                /\ \A k \in 1..Len(pdfs) :
                     outdir[title \o "_" \o ToString(k - 1) \o ".pdf"].content
                        = [kind |-> "copy", src |-> <<pdfs[k]>>]
           /\ synthesised # {} => (pdfs = <<>> /\ images # <<>>)
           /\ (pdfs = <<>> /\ \E k \in 1..Len(images) : Openable(images[k][1]))
                => synthesised = {title \o ".pdf"}

\* a note with a PDF and an image reference has just been processed: the PDF
\* was copied, nothing synthesised
C4_Witness ==
    /\ last.idx # 0
    /\ PdfPairs(notes[last.idx].content) # {}
    /\ ImagePairs(notes[last.idx].content) # {}
    /\ \E f \in last.written : outdir[f].content.kind = "copy"

\* C5 (as claimed): a second run over the same export and output directory
\* leaves the same file names with the same content as the first run did.
C5_Idempotent ==
    (run = 2 /\ pc = "done") => Contents1(outdir) = Contents1(out1)

\* C6 (as claimed): every globbed PDF goes from pending to uploaded or failed
\* through exactly one POST, and the loop ends only once every file has.
C6_Lifecycle ==
    /\ \A i \in 1..Len(ufiles) : uattempts[i] <= 1
    /\ \A i \in 1..Len(ufiles) : ustatus[i] # "pending" => uattempts[i] = 1
    /\ upc \in {"done", "crashed"} => \A i \in 1..Len(ufiles) : ustatus[i] # "pending"

C8_NoResourcesNoOutput ==
    [][ (pc = "running"
        /\ PdfPairs(notes[idx].content) = {} /\ ImagePairs(notes[idx].content) = {})
          => /\ outdir' = outdir
             /\ <<run, idx, "skipping">> \in logs' ]_vars

\* such a note has been skipped while the directory already held a file
C8_Witness ==
    /\ last.idx # 0
    /\ PdfPairs(notes[last.idx].content) = {}
    /\ ImagePairs(notes[last.idx].content) = {}
    /\ last.written = {}
    /\ DOMAIN outdir # {}
    /\ <<run, last.idx, "skipping">> \in logs

\* C9 (as claimed): the returned list holds each resolved path at most once,
\* with the extension inferred at the path's first match in pass order.
C9_DedupByPath ==
    fpc = "returned" =>
        /\ \A i, j \in 1..Len(fresult) : fresult[i][1] = fresult[j][1] => i = j
        /\ \A i \in 1..Len(fresult) :
             LET hits == {k \in 1..Len(finferred) : RefPath(finferred[k].ref) = fresult[i][1]}
                 first == CHOOSE k \in hits : \A m \in hits : k <= m
             IN fresult[i][2] = finferred[first].ext

\* C10 (as claimed): when the 'created' value parsed into a timestamp, every
\* file the note wrote carries it as modification time; otherwise no time is set.
C10_TimestampPropagation ==
    last.idx # 0 =>
        LET fm == notes[last.idx].fm
            parsed == fm.shape = "dict" /\ fm.created # "" /\ ParseCreated(fm.created).ok
        IN \A f \in last.written :
              outdir[f].mtime = IF parsed
                                THEN [set |-> TRUE, t |-> ParseCreated(fm.created).t]
                                ELSE [set |-> FALSE, t |-> 0]

====
